---- MODULE Spec2Model ----
(***************************************************************************)
(* global_economy_analysis.py: a one-shot pipeline                         *)
(*   setup_environment -> fetch_data -> process_and_cluster -> generate_map *)
(* Data frames are records [columns, rows]; a row is a function from the   *)
(* frame's column names to cell values.                                    *)
(***************************************************************************)
EXTENDS Integers, Sequences, FiniteSets, TLC

VARIABLES pc, fault, returned, geojson, world, data, gdf0, cluster_df,
          scaled_features, cluster_means, gdf, output_file, opened, reordered

vars == <<pc, fault, returned, geojson, world, data, gdf0, cluster_df,
          scaled_features, cluster_means, gdf, output_file, opened, reordered>>

(* ------------------------------ bounds -------------------------------- *)
\* boundary features appended after the core countries of a source file
MaxExtras == 2
\* indicator cells the World Bank response leaves empty
MaxNulls == 1

(* --------------------------- program constants ------------------------ *)
\* pandas' missing value
NaN == -999
\* a boundary feature whose ISO property is null
NoCode == ""
\* KMeans(n_clusters=5, ...)
n_clusters == 5
\* fillna(-1)
NoCluster == -1
\* list(indicators.values())
Indicators == <<"GDP_per_Capita", "CPI_Inflation", "FDI_Inflow", "Unemployment_Rate">>
IndicatorSet == {Indicators[i] : i \in 1..Len(Indicators)}
\* the alternate names of the ISO-code column, in priority order
IsoAliases == <<"id", "adm0_a3", "iso_3">>
colors == (-1 :> "gray") @@ (0 :> "#e41a1c") @@ (1 :> "#377eb8") @@
          (2 :> "#4daf4a") @@ (3 :> "#984ea3") @@ (4 :> "#ff7f00")
NoFile == <<>>
Empty == [columns |-> {}, rows |-> <<>>]

(* ------------------------------ helpers ------------------------------- *)
Range(s) == {s[i] : i \in 1..Len(s)}

RECURSIVE Flatten(_)
Flatten(ss) == IF ss = <<>> THEN <<>> ELSE Head(ss) \o Flatten(Tail(ss))

RECURSIVE Sum(_)
Sum(s) == IF s = <<>> THEN 0 ELSE Head(s) + Sum(Tail(s))

RECURSIVE GCD(_, _)
GCD(a, b) == IF b = 0 THEN a ELSE GCD(b, a % b)

Reverse(s) == [i \in 1..Len(s) |-> s[Len(s) + 1 - i]]

\* the column values of a frame, in row order
Column(frame, c) == [i \in 1..Len(frame.rows) |-> frame.rows[i][c]]

(* ------------------- the remote resources (inputs) --------------------- *)
\* the countries every bounded source file starts with (a prefix of them)
Core == <<"AAA", "BBB", "CCC", "DDD", "EEE">>
\* further features a file may carry: a second feature with a core code, a
\* sixth country, a territory the World Bank has no row for, a feature with
\* a null ISO property, Antarctica
ExtraCodes == {"AAA", "FFF", "XXX", NoCode, "ATA"}

NameOf(code) ==
  CASE code = "AAA" -> "Aland"
    [] code = "BBB" -> "Bolivar"
    [] code = "CCC" -> "Cascadia"
    [] code = "DDD" -> "Dorne"
    [] code = "EEE" -> "Elbonia"
    [] code = "FFF" -> "Freedonia"
    [] code = "XXX" -> "Disputed Territory"
    [] code = "ATA" -> "Antarctica"
    [] OTHER -> "Unnamed"

\* a source file's properties: <<raw column name, what the column holds>>
DefaultLayout == << <<"name", "name">>, <<"iso_a3", "code">>, <<"geometry", "geom">> >>
Layouts ==
  { << <<"name", "name">>, <<"iso_a3", "code">>, <<"geometry", "geom">> >>,
    << <<"NAME", "name">>, <<"ISO_A3", "code">>, <<"geometry", "geom">> >>,
    << <<"name", "name">>, <<"id", "code">>, <<"geometry", "geom">> >>,
    << <<"NAME", "name">>, <<"ADM0_A3", "code">>, <<"geometry", "geom">> >>,
    << <<"name", "name">>, <<"iso_3", "code">>, <<"geometry", "geom">> >>,
    << <<"name", "name">>, <<"ID", "fid">>, <<"ADM0_A3", "code">>, <<"geometry", "geom">> >>,
    << <<"name", "name">>, <<"ISO_N3", "fid">>, <<"geometry", "geom">> >>,
    << <<"ADMIN", "name">>, <<"ISO_A3", "code">>, <<"geometry", "geom">> >> }

FeatureIds == <<"f1", "f2", "f3", "f4", "f5", "f6", "f7", "f8", "f9", "f10">>

\* the file with the given layout whose i-th feature has ISO code codes[i]
GeoFile(layout, codes) ==
  [columns |-> {layout[k][1] : k \in 1..Len(layout)},
   rows |-> [i \in 1..Len(codes) |->
              [c \in {layout[k][1] : k \in 1..Len(layout)} |->
                LET kind == (CHOOSE k \in 1..Len(layout) : layout[k][1] = c)
                    what == layout[kind][2]
                IN CASE what = "name" -> NameOf(codes[i])
                     [] what = "code" -> codes[i]
                     [] what = "fid" -> FeatureIds[i]
                     [] OTHER -> i]]]

ExtraSeqs == UNION {[1..n -> ExtraCodes] : n \in 0..MaxExtras}
CodeSeqs == {SubSeq(Core, 1, n) \o e : n \in 0..Len(Core), e \in ExtraSeqs}
\* files in which only the number of core countries varies, in every layout
SmallGeoFiles == {GeoFile(l, SubSeq(Core, 1, n) \o e) :
                    l \in Layouts, n \in 0..Len(Core), e \in {<<>>, <<"FFF">>}}
\* the files of the runs that are compared with a re-ordered run
ReorderGeoFiles ==
  {GeoFile(DefaultLayout, SubSeq(Core, 1, n) \o e) :
     n \in 0..Len(Core), e \in {<<>>, <<"FFF">>, <<"XXX">>}}
  \cup {GeoFile(l, Core) : l \in Layouts \ {DefaultLayout}}
\* the source files of the bounded runs: every feature sequence in the
\* layout of the real file, and the small files in every layout
GeoFiles == {GeoFile(DefaultLayout, cs) : cs \in CodeSeqs} \cup SmallGeoFiles

\* the World Bank's most recent values, one row per economy
WBValues ==
  [AAA |-> <<10, 2, 3, 5>>, BBB |-> <<10, 2, 3, 5>>,
   CCC |-> <<40, 4, 1, 9>>, DDD |-> <<40, 4, 1, 9>>,
   EEE |-> <<70, 3, 6, 4>>, FFF |-> <<70, 3, 6, 4>>]
Economies == <<"AAA", "BBB", "CCC", "DDD", "EEE", "FFF">>
\* the cells a response may leave empty
NullableCells == {"EEE"} \X (1..Len(Indicators))
NullSets == {S \in SUBSET NullableCells : Cardinality(S) <= MaxNulls}

\* wb.data.DataFrame(indicators.keys(), mrnev=1).reset_index(), renamed
WBTable(nulls) ==
  [columns |-> {"iso_a3"} \cup IndicatorSet,
   rows |-> [e \in 1..Len(Economies) |->
              [c \in {"iso_a3"} \cup IndicatorSet |->
                IF c = "iso_a3" THEN Economies[e]
                ELSE LET k == CHOOSE j \in 1..Len(Indicators) : Indicators[j] = c
                     IN IF <<Economies[e], k>> \in nulls THEN NaN
                        ELSE WBValues[Economies[e]][k]]]]
WBTables == {WBTable(S) : S \in NullSets}

(* ------------------------------ fetch_data ----------------------------- *)
\* str.lower() on the column names this model's files use
Lower(c) ==
  CASE c = "NAME" -> "name"
    [] c = "ADMIN" -> "admin"
    [] c = "ISO_A3" -> "iso_a3"
    [] c = "ADM0_A3" -> "adm0_a3"
    [] c = "ISO_N3" -> "iso_n3"
    [] c = "ID" -> "id"
    [] OTHER -> c

\* frame.rename(columns={old: new})
Rename(frame, old, new) ==
  LET ren(c) == IF c = old THEN new ELSE c
      cols == {ren(c) : c \in frame.columns}
  IN [columns |-> cols,
      rows |-> [i \in 1..Len(frame.rows) |->
                 [c \in cols |-> frame.rows[i][CHOOSE o \in frame.columns : ren(o) = c]]]]

\* world.columns = world.columns.str.lower()
LowerColumns(frame) ==
  LET cols == {Lower(c) : c \in frame.columns}
  IN [columns |-> cols,
      rows |-> [i \in 1..Len(frame.rows) |->
                 [c \in cols |-> frame.rows[i][CHOOSE o \in frame.columns : Lower(o) = c]]]]

\* the first alias present among the columns, 0 when none is
FirstAlias(cols) ==
  IF \E k \in 1..Len(IsoAliases) : IsoAliases[k] \in cols
  THEN CHOOSE k \in 1..Len(IsoAliases) :
         /\ IsoAliases[k] \in cols
         /\ \A j \in 1..(k - 1) : IsoAliases[j] \notin cols
  ELSE 0

\* if 'iso_a3' not in world.columns: rename the first alias found
NormalizeIso(frame) ==
  IF "iso_a3" \in frame.columns \/ FirstAlias(frame.columns) = 0 THEN frame
  ELSE Rename(frame, IsoAliases[FirstAlias(frame.columns)], "iso_a3")

IsAntarctica(row) == row["name"] = "Antarctica"

\* as if the filter compared with a lower-cased name
DropAntarctica_WrongCase(frame) ==
  [columns |-> frame.columns,
   rows |-> SelectSeq(frame.rows, LAMBDA r : r["name"] # "antarctica")]

\* world = world[world['name'] != "Antarctica"]
DropAntarctica(frame) ==
  [columns |-> frame.columns,
   rows |-> SelectSeq(frame.rows, LAMBDA r : ~IsAntarctica(r))]

\* the boundary frame fetch_data returns for a source file that has a name column
NormalizeWorld(file) == DropAntarctica(NormalizeIso(LowerColumns(file)))

(* -------------------------- process_and_cluster ------------------------ *)
\* left.merge(right, on=key, how='inner'): the left rows in order, each once
\* per right row with the same key
MergeInner(left, right, key) ==
  LET cols == left.columns \cup right.columns
      join(l, r) == [c \in cols |-> IF c \in left.columns THEN l[c] ELSE r[c]]
      matches(l) == SelectSeq(right.rows, LAMBDA r : r[key] = l[key])
  IN [columns |-> cols,
      rows |-> Flatten([i \in 1..Len(left.rows) |->
                 [j \in 1..Len(matches(left.rows[i])) |->
                    join(left.rows[i], matches(left.rows[i])[j])]])]

HasNull(row) == \E c \in IndicatorSet : row[c] = NaN

\* as if dropna(how='all') were used: only rows with all four fields null go
DropNa_All(frame) ==
  [columns |-> frame.columns,
   rows |-> SelectSeq(frame.rows, LAMBDA r : \E c \in IndicatorSet : r[c] # NaN)]

\* gdf.dropna(subset=list(indicators.values()))
DropNa(frame) ==
  [columns |-> frame.columns,
   rows |-> SelectSeq(frame.rows, LAMBDA r : ~HasNull(r))]

\* StandardScaler().fit_transform: (x - mean) / std per column, the std taken
\* as 1 when it is 0.  A scaled value z is kept exactly as [num, den2] with
\* z = num / sqrt(den2): num = n*x - sum(x), den2 = n*sum(x^2) - sum(x)^2.
StandardScaler_fit_transform(frame) ==
  LET n == Len(frame.rows)
      col(c) == Column(frame, c)
      S(c) == Sum(col(c))
      Q(c) == Sum([i \in 1..n |-> col(c)[i] * col(c)[i]])
      den2(c) == n * Q(c) - S(c) * S(c)
  IN [i \in 1..n |->
       [k \in 1..Len(Indicators) |->
          IF den2(Indicators[k]) = 0 THEN [num |-> 0, den2 |-> 1]
          ELSE [num |-> n * frame.rows[i][Indicators[k]] - S(Indicators[k]),
                den2 |-> den2(Indicators[k])]]]

\* KMeans(n_clusters=5, random_state=42, n_init=10).fit_predict(X): the
\* labellings the library may return for X. Each sample gets the index of
\* its nearest final centre, so equal samples get equal labels; when X has
\* no more than n_clusters distinct samples each of them is a centre, so
\* distinct samples get distinct labels. Which label a group of samples
\* gets follows from the seeded initialisation.
KMeans_fit_predict(X) ==
  {[i \in 1..Len(X) |-> f[X[i]]] :
     f \in {g \in [Range(X) -> 0..(n_clusters - 1)] :
             Cardinality(Range(X)) <= n_clusters =>
               \A x, y \in Range(X) : g[x] = g[y] => x = y}}

\* cluster_df['Cluster_ID'] = labels
WithClusterId(frame, labels) ==
  [columns |-> frame.columns \cup {"Cluster_ID"},
   rows |-> [i \in 1..Len(frame.rows) |-> frame.rows[i] @@ ("Cluster_ID" :> labels[i])]]

\* the mean of a non-empty sequence of numbers, as a reduced fraction
Mean(xs) ==
  LET g == GCD(Sum(xs), Len(xs))
  IN [num |-> Sum(xs) \div g, den |-> Len(xs) \div g]

\* cluster_df.groupby('Cluster_ID')[list(indicators.values())].mean()
GroupMeans(frame) ==
  LET members(l) == SelectSeq(frame.rows, LAMBDA r : r["Cluster_ID"] = l)
  IN [l \in Range(Column(frame, "Cluster_ID")) |->
       [c \in IndicatorSet |->
          Mean([i \in 1..Len(members(l)) |-> members(l)[i][c]])]]

\* as if the unmatched rows were filled with 0
FillNa_Zero(v) == IF v = NaN THEN 0 ELSE v

\* .fillna(-1).astype(int)
FillNa(v) == IF v = NaN THEN NoCluster ELSE v

\* gdf.merge(cluster_df[['iso_a3', 'Cluster_ID']], on='iso_a3', how='left'),
\* then Cluster_ID.fillna(-1): every left row once per labelled row with its
\* ISO code, and once with -1 when there is none
ReAttach(frame, labelled) ==
  LET matches(l) == SelectSeq(labelled.rows, LAMBDA r : r["iso_a3"] = l["iso_a3"])
      out(l) == IF matches(l) = <<>> THEN <<l @@ ("Cluster_ID" :> FillNa(NaN))>>
                ELSE [j \in 1..Len(matches(l)) |->
                        l @@ ("Cluster_ID" :> FillNa(matches(l)[j]["Cluster_ID"]))]
  IN [columns |-> frame.columns \cup {"Cluster_ID"},
      rows |-> Flatten([i \in 1..Len(frame.rows) |-> out(frame.rows[i])])]

\* the first join of process_and_cluster
FirstJoin(w, d) == MergeInner(w, d, "iso_a3")

(* ------------------------------ generate_map --------------------------- *)
\* sorted(gdf['Cluster_ID'].unique())
RECURSIVE SortedLabels(_)
SortedLabels(S) ==
  IF S = {} THEN <<>>
  ELSE LET m == CHOOSE x \in S : \A y \in S : x <= y
       IN <<m>> \o SortedLabels(S \ {m})

\* one feature group per cluster label present, holding that label's rows
Overlays(frame) ==
  LET ids == SortedLabels(Range(Column(frame, "Cluster_ID")))
  IN [k \in 1..Len(ids) |->
       [name |-> IF ids[k] # -1 THEN "Cluster" ELSE "No Data",
        cluster |-> ids[k],
        color |-> colors[ids[k]],
        features |-> SelectSeq(frame.rows, LAMBDA r : r["Cluster_ID"] = ids[k])]]

\* the legend's rows: one per row of cluster_means
Legend(means) ==
  LET ids == SortedLabels(DOMAIN means)
  IN [k \in 1..Len(ids) |-> [id |-> ids[k], color |-> colors[ids[k]], row |-> means[ids[k]]]]

(* ------------------------------- the run ------------------------------- *)
\* as if each stage's exception were caught and the run went on
AfterFault_Swallowed(stage) ==
  CASE stage = "import" -> "fetch_data"
    [] stage = "fetch_data" -> "process_and_cluster"
    [] stage = "process_and_cluster" -> "generate_map"
    [] OTHER -> "aborted"

\* where control is after `stage` raised: nothing catches, the process ends
AfterFault(stage) == "aborted"

Raise(stage, exc) ==
  /\ fault' = exc
  /\ pc' = AfterFault(stage)

Init ==
  /\ pc = "import"
  /\ fault = "none"
  /\ returned = {}
  /\ geojson = Empty
  /\ world = Empty
  /\ data = Empty
  /\ gdf0 = Empty
  /\ cluster_df = Empty
  /\ scaled_features = <<>>
  /\ cluster_means = <<>>
  /\ gdf = Empty
  /\ output_file = NoFile
  /\ opened = FALSE
  /\ reordered = [ran |-> FALSE]

\* line 13: setup_environment() returns
SetupEnvironment ==
  /\ pc = "import"
  /\ pc' = "fetch_data"
  /\ returned' = returned \cup {"setup_environment"}
  /\ UNCHANGED <<fault, geojson, world, data, gdf0, cluster_df, scaled_features,
                 cluster_means, gdf, output_file, opened, reordered>>

\* line 10: pip fails, check_call raises
SetupEnvironmentFails ==
  /\ pc = "import"
  /\ Raise("import", "CalledProcessError")
  /\ UNCHANGED <<returned, geojson, world, data, gdf0, cluster_df, scaled_features,
                 cluster_means, gdf, output_file, opened, reordered>>

\* fetch_data() returns the normalised boundaries and the indicator table
FetchData(files, tables) ==
  /\ pc = "fetch_data"
  /\ \E file \in files, wb \in tables :
       /\ "name" \in LowerColumns(file).columns
       /\ geojson' = file
       /\ world' = NormalizeWorld(file)
       /\ data' = wb
  /\ pc' = "process_and_cluster"
  /\ returned' = returned \cup {"fetch_data"}
  /\ UNCHANGED <<fault, gdf0, cluster_df, scaled_features, cluster_means, gdf,
                 output_file, opened, reordered>>

\* line 35: the file has no name column, world['name'] raises
FetchDataNoName(files) ==
  /\ pc = "fetch_data"
  /\ \E file \in files :
       /\ "name" \notin LowerColumns(file).columns
       /\ geojson' = file
  /\ Raise("fetch_data", "KeyError")
  /\ UNCHANGED <<returned, world, data, gdf0, cluster_df, scaled_features,
                 cluster_means, gdf, output_file, opened, reordered>>

\* lines 27, 45: a download fails
FetchDataNetworkFails ==
  /\ pc = "fetch_data"
  /\ Raise("fetch_data", "URLError")
  /\ UNCHANGED <<returned, geojson, world, data, gdf0, cluster_df, scaled_features,
                 cluster_means, gdf, output_file, opened, reordered>>

\* process_and_cluster() returns (gdf, cluster_means)
ProcessAndCluster ==
  /\ pc = "process_and_cluster"
  /\ "iso_a3" \in world.columns
  /\ LET joined == FirstJoin(world, data)
         input == DropNa(joined)
         X == StandardScaler_fit_transform(input)
     IN /\ Len(input.rows) >= n_clusters
        /\ \E labels \in KMeans_fit_predict(X) :
             /\ gdf0' = joined
             /\ scaled_features' = X
             /\ cluster_df' = WithClusterId(input, labels)
             /\ cluster_means' = GroupMeans(WithClusterId(input, labels))
             /\ gdf' = ReAttach(joined, WithClusterId(input, labels))
  /\ pc' = "generate_map"
  /\ returned' = returned \cup {"process_and_cluster"}
  /\ UNCHANGED <<fault, geojson, world, data, output_file, opened, reordered>>

\* line 53: the boundaries have no iso_a3 column, merge raises
ProcessAndClusterNoKey ==
  /\ pc = "process_and_cluster"
  /\ "iso_a3" \notin world.columns
  /\ Raise("process_and_cluster", "KeyError")
  /\ UNCHANGED <<returned, geojson, world, data, gdf0, cluster_df, scaled_features,
                 cluster_means, gdf, output_file, opened, reordered>>

\* line 57: no complete row is left, the scaler raises on 0 samples
ProcessAndClusterNoSamples ==
  /\ pc = "process_and_cluster"
  /\ "iso_a3" \in world.columns
  /\ Len(DropNa(FirstJoin(world, data)).rows) = 0
  /\ gdf0' = FirstJoin(world, data)
  /\ cluster_df' = DropNa(FirstJoin(world, data))
  /\ Raise("process_and_cluster", "ValueError")
  /\ UNCHANGED <<returned, geojson, world, data, scaled_features, cluster_means, gdf,
                 output_file, opened, reordered>>

\* line 60: fewer samples than clusters, KMeans raises
ProcessAndClusterTooFew ==
  /\ pc = "process_and_cluster"
  /\ "iso_a3" \in world.columns
  /\ Len(DropNa(FirstJoin(world, data)).rows) \in 1..(n_clusters - 1)
  /\ gdf0' = FirstJoin(world, data)
  /\ cluster_df' = DropNa(FirstJoin(world, data))
  /\ scaled_features' = StandardScaler_fit_transform(DropNa(FirstJoin(world, data)))
  /\ Raise("process_and_cluster", "ValueError")
  /\ UNCHANGED <<returned, geojson, world, data, cluster_means, gdf,
                 output_file, opened, reordered>>

\* generate_map(): the overlays and the legend are built, then the document
\* is saved and opened
GenerateMap ==
  /\ pc = "generate_map"
  /\ output_file' = <<[name |-> "global_economy_clusters.html",
                       overlays |-> Overlays(gdf),
                       legend |-> Legend(cluster_means)]>>
  /\ opened' = TRUE
  /\ pc' = "done"
  /\ returned' = returned \cup {"generate_map"}
  /\ UNCHANGED <<fault, geojson, world, data, gdf0, cluster_df, scaled_features,
                 cluster_means, gdf, reordered>>

\* the label the run gave the clustering input row with this geometry
RunLabel(geom) ==
  (CHOOSE r \in Range(cluster_df.rows) : r["geometry"] = geom)["Cluster_ID"]

\* process_and_cluster applied to the same boundaries in reverse row order,
\* for comparison with the run's own result. The seed is fixed, so the same
\* rows in the same order get the labels the run gave them; in another order
\* the same rows are taken to fall into the same groups, and the number each
\* group gets follows from the rows the seeded initialisation draws, which
\* it draws by position.
ProcessAndClusterReordered ==
  /\ pc = "done"
  /\ ~reordered.ran
  /\ LET w == [columns |-> world.columns, rows |-> Reverse(world.rows)]
         joined == FirstJoin(w, data)
         input == DropNa(joined)
         X == StandardScaler_fit_transform(input)
     IN \E labels \in KMeans_fit_predict(X) :
          /\ input.rows = DropNa(gdf0).rows => WithClusterId(input, labels) = cluster_df
          /\ \A i, j \in 1..Len(input.rows) :
               labels[i] = labels[j] <=>
                 RunLabel(input.rows[i]["geometry"]) = RunLabel(input.rows[j]["geometry"])
          /\ reordered' = [ran |-> TRUE,
                           cluster_df |-> WithClusterId(input, labels),
                           cluster_means |-> GroupMeans(WithClusterId(input, labels)),
                           gdf |-> ReAttach(joined, WithClusterId(input, labels))]
  /\ UNCHANGED <<pc, fault, returned, geojson, world, data, gdf0, cluster_df,
                 scaled_features, cluster_means, gdf, output_file, opened>>

Next ==
  \/ SetupEnvironment
  \/ SetupEnvironmentFails
  \/ FetchData(GeoFiles, WBTables)
  \/ FetchDataNoName(GeoFiles)
  \/ FetchDataNetworkFails
  \/ ProcessAndCluster
  \/ ProcessAndClusterNoKey
  \/ ProcessAndClusterNoSamples
  \/ ProcessAndClusterTooFew
  \/ GenerateMap

Spec == Init /\ [][Next]_vars

NextReorder ==
  \/ SetupEnvironment
  \/ SetupEnvironmentFails
  \/ FetchData(ReorderGeoFiles, {WBTable({})})
  \/ FetchDataNoName(ReorderGeoFiles)
  \/ FetchDataNetworkFails
  \/ ProcessAndCluster
  \/ ProcessAndClusterNoKey
  \/ ProcessAndClusterNoSamples
  \/ ProcessAndClusterTooFew
  \/ GenerateMap
  \/ ProcessAndClusterReordered

SpecReorder == Init /\ [][NextReorder]_vars

(* ------------------------------- claims -------------------------------- *)
Rows(frame) == Range(frame.rows)
ProcessReturned == "process_and_cluster" \in returned
Labels == {NoCluster} \cup (0..(n_clusters - 1))

\* C1: every boundary record handed to process_and_cluster is in the final
\* merged set with a cluster label; a record whose ISO code matches no
\* indicator row is there with label -1 and null indicator fields, and one
\* whose indicator row has a missing value is there with label -1.
C1_EveryBoundaryRecordLabelled ==
  ProcessReturned =>
    \A w \in Rows(world) :
      \E g \in Rows(gdf) :
        /\ g["geometry"] = w["geometry"]
        /\ g["Cluster_ID"] \in Labels
        /\ (\A d \in Rows(data) : d["iso_a3"] # w["iso_a3"]) =>
             /\ g["Cluster_ID"] = NoCluster
             /\ \A c \in IndicatorSet : g[c] = NaN
        /\ (\E d \in Rows(data) : d["iso_a3"] = w["iso_a3"] /\ HasNull(d)) =>
             g["Cluster_ID"] = NoCluster

\* C2: every record of the final merged set has a Cluster_ID in
\* {-1, 0, 1, 2, 3, 4}, and it is -1 exactly when the record was not in the
\* clustering input set, which is exactly when one of its four indicator
\* fields is null.
C2_LabelRange ==
  ProcessReturned =>
    \A g \in Rows(gdf) :
      LET clustered == \E r \in Rows(cluster_df) : r["geometry"] = g["geometry"]
          hasnull == \E k \in 1..Len(Indicators) : g[Indicators[k]] = NaN
      IN /\ g["Cluster_ID"] \in {-1, 0, 1, 2, 3, 4}
         /\ g["Cluster_ID"] = -1 <=> ~clustered
         /\ ~clustered <=> hasnull

C2_Witness ==
  /\ pc = "done"
  /\ \E g \in Rows(gdf) : g["Cluster_ID"] = -1 /\ g["GDP_per_Capita"] # NaN
  /\ \E g \in Rows(gdf) : g["Cluster_ID"] = 4

\* C3: no partial results: when the output document exists, all three stages
\* have returned without a fault; a run that ended in a fault (in acquisition,
\* in merge-and-cluster) has written nothing; a run that finished has written
\* the document.
C3_NoPartialResults ==
  /\ output_file # NoFile =>
       /\ fault = "none"
       /\ {"fetch_data", "process_and_cluster", "generate_map"} \subseteq returned
  /\ fault # "none" => output_file = NoFile /\ pc = "aborted"
  /\ pc = "done" => output_file # NoFile

C3_Witness ==
  /\ pc = "aborted"
  /\ fault = "ValueError"
  /\ "fetch_data" \in returned
  /\ Len(world.rows) > 0
  /\ Len(cluster_df.rows) = 0
  /\ output_file = NoFile

\* C4: when the clustering input set has between 1 and 4 rows,
\* process_and_cluster still completes: every input country has exactly one
\* label among 0..4 and the summary table has exactly one row per label used.
C4_FewRowsStillClustered ==
  ( /\ "fetch_data" \in returned
    /\ pc # "process_and_cluster"
    /\ "iso_a3" \in world.columns
    /\ Len(DropNa(FirstJoin(world, data)).rows) \in 1..(n_clusters - 1) )
  => /\ ProcessReturned
     /\ Len(cluster_df.rows) = Len(DropNa(FirstJoin(world, data)).rows)
     /\ \A r \in Rows(cluster_df) : r["Cluster_ID"] \in 0..(n_clusters - 1)
     /\ DOMAIN cluster_means = {r["Cluster_ID"] : r \in Rows(cluster_df)}

\* C5: the boundary records fetch_data returns each have an ISO code, and no
\* two of them have the same ISO code.
C5_IsoPresentAndUnique ==
  "fetch_data" \in returned =>
    /\ "iso_a3" \in world.columns
    /\ \A i \in 1..Len(world.rows) : world.rows[i]["iso_a3"] # NoCode
    /\ \A i, j \in 1..Len(world.rows) :
         world.rows[i]["iso_a3"] = world.rows[j]["iso_a3"] => i = j

\* C6: the values of the summary table are the means of the raw indicator
\* values of each cluster's member rows, and the table is the same when the
\* input rows are re-ordered.
C6_MeansRawAndOrderFree ==
  /\ ProcessReturned =>
       \A l \in DOMAIN cluster_means : \A c \in IndicatorSet :
         LET members == {i \in 1..Len(cluster_df.rows) : cluster_df.rows[i]["Cluster_ID"] = l}
             total == Sum([i \in 1..Len(cluster_df.rows) |->
                            IF i \in members THEN cluster_df.rows[i][c] ELSE 0])
         IN cluster_means[l][c].num * Cardinality(members) = cluster_means[l][c].den * total
  /\ reordered.ran => reordered.cluster_means = cluster_means

\* C8: no record named Antarctica is in the output of any stage: the boundary
\* set fetch_data returns, the first join, the clustering input set, the
\* final merged set, the overlays of the written map.
NoAntarctica(rows) == \A i \in 1..Len(rows) : rows[i]["name"] # "Antarctica"
C8_AntarcticaAbsent ==
  /\ NoAntarctica(world.rows)
  /\ NoAntarctica(gdf0.rows)
  /\ NoAntarctica(cluster_df.rows)
  /\ NoAntarctica(gdf.rows)
  /\ \A d \in Range(output_file) : \A k \in 1..Len(d.overlays) :
       NoAntarctica(d.overlays[k].features)

C8_Witness ==
  /\ pc = "done"
  /\ \E i \in 1..Len(geojson.rows) : geojson.rows[i]["name"] = "Antarctica"
  /\ output_file # NoFile

\* C9: no row of the clustering input set has a null in any of the four
\* indicator fields, and a joined row with a null in one of them is not in
\* that set; the scaled features are those of exactly that set.
C9_CompleteCases ==
  /\ \A r \in Rows(cluster_df) : \A k \in 1..Len(Indicators) : r[Indicators[k]] # NaN
  /\ \A g \in Rows(gdf0) :
       (\E k \in 1..Len(Indicators) : g[Indicators[k]] = NaN) =>
         \A r \in Rows(cluster_df) : r["geometry"] # g["geometry"]
  /\ scaled_features # <<>> => Len(scaled_features) = Len(cluster_df.rows)

C9_Witness ==
  /\ ProcessReturned
  /\ \E g \in Rows(gdf0) : g["FDI_Inflow"] = NaN
  /\ Len(scaled_features) >= n_clusters

\* C10: re-attaching the labels neither adds nor drops rows: the final merged
\* set has exactly one record for each row of the first join, in its order.
C10_RowsPreserved ==
  ProcessReturned =>
    /\ Len(gdf.rows) = Len(gdf0.rows)
    /\ \A i \in 1..Len(gdf0.rows) :
         \A c \in gdf0.columns : gdf.rows[i][c] = gdf0.rows[i][c]

====
